---------------------------- MODULE Spec2Model ----------------------------
(***************************************************************************)
(* Computer Lab Scheduler (src/main.py): the entity store (users,          *)
(* students, computers, bookings), the time normaliser, the booking /      *)
(* assignment engine and the admin operations, as a state machine.         *)
(*                                                                         *)
(* Time is counted in whole hours.  A datetime is a record                 *)
(*   [wall |-> hours of its wall-clock fields since day 0 00:00,           *)
(*    tz   |-> "none" (naive) | "UTC" | "EAT" (Africa/Addis_Ababa, +3)]    *)
(* A DateTime column keeps only the wall-clock fields (SQLite stores the   *)
(* formatted fields of the value and no zone), so a stored value is the    *)
(* integer wall and is read back as a naive datetime.                      *)
(* A nullable column is a sequence: <<>> is NULL, <<v>> holds v.           *)
(***************************************************************************)
EXTENDS Integers, Sequences, FiniteSets, TLC

VARIABLES
    users,      \* table users:     id -> [username, email, role, is_active]
    students,   \* table students:  id -> [name, email, student_id, user_id, active,
                \*                         usage_days_total, usage_days_remaining,
                \*                         usage_last_decrement_at]
    computers,  \* table computers: id -> [name, status, current_user, last_updated]
    bookings,   \* table bookings:  id -> [computer_id, student_id, start_time,
                \*                         end_time, status]
    now,        \* the wall clock of the host, as hours UTC
    resp,       \* the reply of the handler that ran last
    procs,      \* the requests in flight when handlers run concurrently
    active_connections, \* manager.active_connections: the listeners, in
                        \* the order they connected
    sockets     \* the websockets accepted so far: id -> [state, received]

notifier == <<active_connections, sockets>>

vars == <<users, students, computers, bookings, now, resp, procs,
          active_connections, sockets>>

-----------------------------------------------------------------------------
(* Optional values *)

None == <<>>

Some(v) == <<v>>

Val(o) == o[1]

Max(S) == CHOOSE x \in S : \A y \in S : y <= x

Min(S) == CHOOSE x \in S : \A y \in S : x <= y

(* The id SQLite gives a new row of an INTEGER PRIMARY KEY table: one more
   than the largest rowid in the table, 1 in an empty table. *)
NextId(table) == IF DOMAIN table = {} THEN 1 ELSE Max(DOMAIN table) + 1

Insert(table, row) == [i \in DOMAIN table \cup {NextId(table)} |->
                         IF i \in DOMAIN table THEN table[i] ELSE row]

Delete(table, ids) == [i \in DOMAIN table \ ids |-> table[i]]

-----------------------------------------------------------------------------
(* Time and timezone normaliser *)

\* Africa/Addis_Ababa is UTC+3 all year
EAT_OFFSET == 3

WORK_START == 9

WORK_END == 17

Offset(tz) == IF tz = "EAT" THEN EAT_OFFSET ELSE 0

Naive(h) == [wall |-> h, tz |-> "none"]

\* ADDIS_ABABA_TZ.localize(dt): the same wall clock, now in the zone
Localize(dt, tz) == [wall |-> dt.wall, tz |-> tz]

\* dt.astimezone(tz): the same instant, the wall clock of the other zone
AsTimezone(dt, tz) == [wall |-> dt.wall - Offset(dt.tz) + Offset(tz), tz |-> tz]

get_current_time == [wall |-> now + EAT_OFFSET, tz |-> "EAT"]

utcnow == Naive(now)

convert_to_utc(dt) ==
    AsTimezone(IF dt.tz = "none" THEN Localize(dt, "EAT") ELSE dt, "UTC")

convert_from_utc(dt) ==
    AsTimezone(IF dt.tz = "none" THEN Localize(dt, "UTC") ELSE dt, "EAT")

\* dt.date(): the calendar day of the wall-clock fields
DateOf(dt) == dt.wall \div 24

\* dt.replace(hour=h, minute=0, second=0, microsecond=0)
ReplaceHour(dt, h) == [dt EXCEPT !.wall = (dt.wall \div 24) * 24 + h]

\* What a DateTime column keeps of a value, and what a query compares
DbValue(dt) == dt.wall

\* What the ORM returns for a stored DateTime
DbLoad(h) == Naive(h)

\* A working window left in local wall-clock time
day_range_unconverted(target_date) ==
    [start |-> ReplaceHour(target_date, WORK_START),
     end   |-> ReplaceHour(target_date, WORK_END)]

day_range_in_tz(target_date) ==
    [start |-> convert_to_utc(ReplaceHour(target_date, WORK_START)),
     end   |-> convert_to_utc(ReplaceHour(target_date, WORK_END))]

\* ADDIS_ABABA_TZ.localize(datetime(year, month, day)) of an ISO date
LocalDate(d) == [wall |-> d * 24, tz |-> "EAT"]

-----------------------------------------------------------------------------
(* Strings are sequences of characters *)

LowerChar(c) ==
    CASE c = "A" -> "a"
      [] c = "B" -> "b"
      [] c = "C" -> "c"
      [] c = "P" -> "p"
      [] c = "S" -> "s"
      [] c = "T" -> "t"
      [] c = "U" -> "u"
      [] OTHER -> c

\* str.lower() / SQL lower()
Lower(s) == [i \in 1..Len(s) |-> LowerChar(s[i])]

RECURSIVE LStrip(_)
LStrip(s) == IF s # <<>> /\ Head(s) = " " THEN LStrip(Tail(s)) ELSE s

RECURSIVE RStrip(_)
RStrip(s) == IF s # <<>> /\ s[Len(s)] = " " THEN RStrip(SubSeq(s, 1, Len(s) - 1)) ELSE s

\* str.strip() / SQL trim()
Strip(s) == RStrip(LStrip(s))

Digits == <<"1", "2", "3", "4", "5", "6", "7", "8", "9">>

\* f"STU{id:03d}" for an id below 10
StuId(id) == <<"S", "T", "U", "0", "0", Digits[id]>>

-----------------------------------------------------------------------------
(* Replies: the JSON body of a 200, or the HTTPException raised (an
   exception no handler catches is the framework's 500) *)

Reply(op, code, detail) == [op |-> op, code |-> code, detail |-> detail, value |-> None]

Ok(op, detail, value) == [op |-> op, code |-> 200, detail |-> detail, value |-> value]

NoReply == Reply("none", 0, "")

-----------------------------------------------------------------------------
(* Authentication: the caller is a user whose credentials verified *)

get_current_user(a) == a \in DOMAIN users /\ users[a].is_active

get_admin_user(a) == get_current_user(a) /\ users[a].role = "admin"

get_student_user(a) == get_current_user(a) /\ users[a].role \in {"student", "admin"}

-----------------------------------------------------------------------------
(* Users and computers *)

register_user(username, email) ==
    /\ IF \E u \in DOMAIN users :
              users[u].username = username \/ users[u].email = email
       THEN /\ resp' = Reply("register", 400, "Username or email already registered")
            /\ UNCHANGED users
       ELSE /\ users' = Insert(users, [username |-> username, email |-> email,
                                       role |-> "admin", is_active |-> TRUE])
            /\ resp' = Ok("register", "admin", Some(NextId(users)))
    /\ UNCHANGED <<students, computers, bookings, now, procs>>
    /\ UNCHANGED notifier

\* A registration that keeps the role the request asks for
register_user_requested_role(user) ==
    /\ IF \E u \in DOMAIN users :
              users[u].username = user.username \/ users[u].email = user.email
       THEN /\ resp' = Reply("register", 400, "Username or email already registered")
            /\ UNCHANGED users
       ELSE /\ users' = Insert(users, [username |-> user.username, email |-> user.email,
                                       role |-> IF user.role = None THEN "admin"
                                                ELSE Val(user.role),
                                       is_active |-> TRUE])
            /\ resp' = Ok("register", "admin", Some(NextId(users)))
    /\ UNCHANGED <<students, computers, bookings, now, procs>>
    /\ UNCHANGED notifier

\* register_user on its payload, a UserCreate: the role is not read
register_user_request(user) == register_user(user.username, user.email)

create_computer_admin(a, name) ==
    /\ get_admin_user(a)
    /\ IF \E c \in DOMAIN computers : computers[c].name = name
       THEN \* UNIQUE(name): the IntegrityError of db.commit() is not caught
            /\ resp' = Reply("create_computer", 500, "IntegrityError")
            /\ UNCHANGED computers
       ELSE /\ computers' = Insert(computers,
                                [name |-> name, status |-> "available",
                                 current_user |-> None,
                                 last_updated |-> DbValue(get_current_time)])
            /\ resp' = Ok("create_computer", "", Some(NextId(computers)))
    /\ UNCHANGED <<users, students, bookings, now, procs>>
    /\ UNCHANGED notifier

-----------------------------------------------------------------------------
(* Students *)

\* Rows of students breaking a UNIQUE constraint against (email, student_id)
StudentUniqueViolation(email, sid) ==
    \E s \in DOMAIN students :
        students[s].email = email \/ students[s].student_id = sid

NewStudent(name, email, sid, user_id, usage_days) ==
    [name |-> name, email |-> email, student_id |-> sid, user_id |-> user_id,
     active |-> TRUE,
     usage_days_total |-> usage_days, usage_days_remaining |-> usage_days,
     usage_last_decrement_at |-> None]

\* student.usage_days if student.usage_days and student.usage_days > 0 else None
UsageDaysOrNone(usage_days) ==
    IF usage_days # None /\ Val(usage_days) # 0 /\ Val(usage_days) > 0
    THEN usage_days ELSE None

\* create_student_admin with a duplicate check on the stored values as they are
create_student_admin_exact(a, name, email_in, student_id_in, usage_days) ==
    /\ get_admin_user(a)
    /\ LET sid   == Lower(Strip(student_id_in))
           email == Lower(Strip(email_in))
       IN  IF StudentUniqueViolation(email, sid)
           THEN /\ resp' = Reply("create_student", 409, "Duplicate student")
                /\ UNCHANGED students
           ELSE /\ students' = Insert(students,
                      NewStudent(name, email, sid, None, UsageDaysOrNone(usage_days)))
                /\ resp' = Ok("create_student", "", Some(NextId(students)))
    /\ UNCHANGED <<users, computers, bookings, now, procs>>
    /\ UNCHANGED notifier

create_student_admin(a, name, email_in, student_id_in, usage_days) ==
    /\ get_admin_user(a)
    /\ LET sid   == Lower(Strip(student_id_in))
           email == Lower(Strip(email_in))
           dups  == {s \in DOMAIN students :
                        \/ Lower(Strip(students[s].student_id)) = sid
                        \/ Lower(Strip(students[s].email)) = email}
       IN  IF dups # {}
           THEN LET dup == students[Min(dups)]
                    detail == IF dup.student_id = sid /\ dup.email = email
                                  THEN "Student ID and email already exist"
                              ELSE IF dup.student_id = sid
                                  THEN "Student ID already exists"
                              ELSE IF dup.email = email
                                  THEN "Email already exists"
                              ELSE "Duplicate student"
                IN  /\ resp' = Reply("create_student", 409, detail)
                    /\ UNCHANGED students
           ELSE IF StudentUniqueViolation(email, sid)
           THEN /\ resp' = Reply("create_student", 409,
                                 "Student ID or email already exists")
                /\ UNCHANGED students
           ELSE /\ students' = Insert(students,
                      NewStudent(name, email, sid, None, UsageDaysOrNone(usage_days)))
                /\ resp' = Ok("create_student", "", Some(NextId(students)))
    /\ UNCHANGED <<users, computers, bookings, now, procs>>
    /\ UNCHANGED notifier

toggle_student_active(a, student_id) ==
    /\ get_admin_user(a)
    /\ IF student_id \notin DOMAIN students
       THEN /\ resp' = Reply("toggle_active", 404, "Student not found")
            /\ UNCHANGED <<users, students>>
       ELSE LET student == students[student_id] IN
            IF student.user_id # None /\ Val(student.user_id) \in DOMAIN users
            THEN /\ users' = [users EXCEPT ![Val(student.user_id)].is_active = ~@]
                 /\ resp' = Ok("toggle_active", "user", student.user_id)
                 /\ UNCHANGED students
            ELSE /\ students' = [students EXCEPT ![student_id].active = ~@]
                 /\ resp' = Ok("toggle_active", "student", None)
                 /\ UNCHANGED users
    /\ UNCHANGED <<computers, bookings, now, procs>>
    /\ UNCHANGED notifier

\* Adjust without the clamp at 0
AdjustNoClamp(counter, days) ==
    Some((IF counter = None THEN 0 ELSE Val(counter)) + days)

\* max(0, counter + days), a NULL counter first set to 0
Adjust(counter, days) ==
    LET cur == IF counter = None THEN 0 ELSE Val(counter)
    IN  Some(IF cur + days > 0 THEN cur + days ELSE 0)

update_student_usage(a, student_id, days) ==
    /\ get_admin_user(a)
    /\ IF student_id \notin DOMAIN students
       THEN /\ resp' = Reply("usage", 404, "Student not found")
            /\ UNCHANGED students
       ELSE IF days = 0
       THEN /\ resp' = Ok("usage", "unchanged", students[student_id].usage_days_remaining)
            /\ UNCHANGED students
       ELSE LET student   == students[student_id]
                total     == Adjust(student.usage_days_total, days)
                remaining == Adjust(student.usage_days_remaining, days)
            IN  /\ students' = [students EXCEPT ![student_id] =
                        [@ EXCEPT !.usage_days_total = total,
                                  !.usage_days_remaining = remaining,
                                  !.active = IF Val(remaining) > 0 THEN TRUE ELSE @]]
                /\ resp' = Ok("usage", "updated", remaining)
    /\ UNCHANGED <<users, computers, bookings, now, procs>>
    /\ UNCHANGED notifier

-----------------------------------------------------------------------------
(* Direct assignment *)

ExpiredReply == Reply("assign", 400, "Student's usage days have expired")

InactiveReply == Reply("assign", 400, "Student is inactive and cannot be assigned")

InUseReply == Reply("assign", 400, "Computer already in use")

NotFoundReply == Reply("assign", 404, "Computer or Student not found")

\* AssignCheck with the busy check moved in front of the student's checks
AssignCheckBusyFirst(computer_id, student_id) ==
    IF computer_id \notin DOMAIN computers \/ student_id \notin DOMAIN students
    THEN NotFoundReply
    ELSE LET student  == students[student_id]
             computer == computers[computer_id]
         IN  IF computer.status = "in_use"
             THEN InUseReply
             ELSE IF /\ student.usage_days_remaining # None
                     /\ Val(student.usage_days_remaining) <= 0
             THEN ExpiredReply
             ELSE IF /\ student.user_id # None
                     /\ Val(student.user_id) \in DOMAIN users
                     /\ ~users[Val(student.user_id)].is_active
             THEN InactiveReply
             ELSE IF student.active = FALSE
             THEN InactiveReply
             ELSE NoReply

\* The checks of admin_assign in the order of the code: the HTTPException of
\* the first one that fails, NoReply when all pass
AssignCheck(computer_id, student_id) ==
    IF computer_id \notin DOMAIN computers \/ student_id \notin DOMAIN students
    THEN NotFoundReply
    ELSE LET student  == students[student_id]
             computer == computers[computer_id]
         IN  IF /\ student.usage_days_remaining # None
                /\ Val(student.usage_days_remaining) <= 0
             THEN ExpiredReply
             ELSE IF /\ student.user_id # None
                     /\ Val(student.user_id) \in DOMAIN users
                     /\ ~users[Val(student.user_id)].is_active
             THEN InactiveReply
             ELSE IF student.active = FALSE
             THEN InactiveReply
             ELSE IF computer.status = "in_use"
             THEN InUseReply
             ELSE NoReply

\* should_decrement comparing the days with >= instead of >
should_decrement_same_day(student, today) ==
    IF student.usage_last_decrement_at = None
    THEN TRUE
    ELSE DateOf(today) >= DateOf(convert_from_utc(DbLoad(Val(student.usage_last_decrement_at))))

\* Whether the stored last decrement lies on an earlier local day than today
should_decrement(student, today) ==
    IF student.usage_last_decrement_at = None
    THEN TRUE
    ELSE LET stored == DbLoad(Val(student.usage_last_decrement_at))
             last   == IF stored.tz = "none" THEN convert_from_utc(stored) ELSE stored
         IN  DateOf(today) > DateOf(last)

\* DecrementUsage without the expiry of the student at 0
DecrementUsageKeepActive(student, today) ==
    IF /\ student.usage_days_remaining # None
       /\ should_decrement(student, today)
       /\ Val(student.usage_days_remaining) > 0
    THEN [student EXCEPT
            !.usage_days_remaining = Some(Val(@) - 1),
            !.usage_last_decrement_at = Some(DbValue(today))]
    ELSE student

\* The student row after the usage-day step of a successful assignment
DecrementUsage(student, today) ==
    IF /\ student.usage_days_remaining # None
       /\ should_decrement(student, today)
       /\ Val(student.usage_days_remaining) > 0
    THEN [student EXCEPT
            !.usage_days_remaining = Some(Val(@) - 1),
            !.usage_last_decrement_at = Some(DbValue(today)),
            !.active = IF Val(student.usage_days_remaining) - 1 <= 0 THEN FALSE ELSE @]
    ELSE student

\* admin_assign taking the usage day before the busy check
admin_assign_early_decrement(a, computer_id, student_id) ==
    /\ get_admin_user(a)
    /\ LET failure == AssignCheck(computer_id, student_id)
           today   == get_current_time
       IN  IF failure # NoReply /\ failure # InUseReply
           THEN /\ resp' = failure
                /\ UNCHANGED <<students, computers>>
           ELSE LET student == DecrementUsage(students[student_id], today) IN
                /\ students' = [students EXCEPT ![student_id] = student]
                /\ IF failure = InUseReply
                   THEN /\ resp' = failure
                        /\ UNCHANGED computers
                   ELSE /\ computers' = [computers EXCEPT ![computer_id] =
                                   [@ EXCEPT !.status = "in_use",
                                             !.current_user = Some(student.name),
                                             !.last_updated = DbValue(today)]]
                        /\ resp' = Ok("assign", "assigned", student.usage_days_remaining)
    /\ UNCHANGED <<users, bookings, now, procs>>
    /\ UNCHANGED notifier

\* admin_assign answering with the remaining days it found
admin_assign_stale_remaining(a, computer_id, student_id) ==
    /\ get_admin_user(a)
    /\ LET failure == AssignCheck(computer_id, student_id)
           today   == get_current_time
       IN  IF failure # NoReply
           THEN /\ resp' = failure
                /\ UNCHANGED <<students, computers>>
           ELSE LET student == DecrementUsage(students[student_id], today) IN
                /\ students' = [students EXCEPT ![student_id] = student]
                /\ computers' = [computers EXCEPT ![computer_id] =
                                   [@ EXCEPT !.status = "in_use",
                                             !.current_user = Some(student.name),
                                             !.last_updated = DbValue(today)]]
                /\ resp' = Ok("assign", "assigned",
                              students[student_id].usage_days_remaining)
    /\ UNCHANGED <<users, bookings, now, procs>>
    /\ UNCHANGED notifier

admin_assign(a, computer_id, student_id) ==
    /\ get_admin_user(a)
    /\ LET failure == AssignCheck(computer_id, student_id)
           today   == get_current_time
       IN  IF failure # NoReply
           THEN /\ resp' = failure
                /\ UNCHANGED <<students, computers>>
           ELSE LET student == DecrementUsage(students[student_id], today) IN
                /\ students' = [students EXCEPT ![student_id] = student]
                /\ computers' = [computers EXCEPT ![computer_id] =
                                   [@ EXCEPT !.status = "in_use",
                                             !.current_user = Some(student.name),
                                             !.last_updated = DbValue(today)]]
                /\ resp' = Ok("assign", "assigned", student.usage_days_remaining)
    /\ UNCHANGED <<users, bookings, now, procs>>
    /\ UNCHANGED notifier

\* admin_unassign leaving the occupant's name on the computer
admin_unassign_keep_occupant(a, computer_id) ==
    /\ get_admin_user(a)
    /\ IF computer_id \notin DOMAIN computers
       THEN /\ resp' = Reply("unassign", 404, "Computer not found")
            /\ UNCHANGED computers
       ELSE /\ computers' = [computers EXCEPT ![computer_id] =
                                [@ EXCEPT !.status = "available",
                                          !.last_updated = DbValue(get_current_time)]]
            /\ resp' = Ok("unassign", "unassigned", None)
    /\ UNCHANGED <<users, students, bookings, now, procs>>
    /\ UNCHANGED notifier

admin_unassign(a, computer_id) ==
    /\ get_admin_user(a)
    /\ IF computer_id \notin DOMAIN computers
       THEN /\ resp' = Reply("unassign", 404, "Computer not found")
            /\ UNCHANGED computers
       ELSE /\ computers' = [computers EXCEPT ![computer_id] =
                                [@ EXCEPT !.status = "available",
                                          !.current_user = None,
                                          !.last_updated = DbValue(get_current_time)]]
            /\ resp' = Ok("unassign", "unassigned", None)
    /\ UNCHANGED <<users, students, bookings, now, procs>>
    /\ UNCHANGED notifier

-----------------------------------------------------------------------------
(* Deletions *)

BookingsOfComputer(computer_id) ==
    {b \in DOMAIN bookings : bookings[b].computer_id = computer_id}

BookingsOfStudent(student_id) ==
    {b \in DOMAIN bookings : bookings[b].student_id = student_id}

delete_computer_admin(a, computer_id) ==
    /\ get_admin_user(a)
    /\ IF computer_id \notin DOMAIN computers
       THEN /\ resp' = Reply("delete_computer", 404, "Computer not found")
            /\ UNCHANGED <<computers, bookings>>
       ELSE /\ bookings' = Delete(bookings, BookingsOfComputer(computer_id))
            /\ computers' = Delete(computers, {computer_id})
            /\ resp' = Ok("delete_computer", "deleted", None)
    /\ UNCHANGED <<users, students, now, procs>>
    /\ UNCHANGED notifier

\* delete_user_admin leaving the bookings of the student behind
delete_user_admin_keep_bookings(a, user_id) ==
    /\ get_admin_user(a)
    /\ IF user_id \notin DOMAIN users
       THEN /\ resp' = Reply("delete_user", 404, "User not found")
            /\ UNCHANGED <<users, students, bookings>>
       ELSE LET linked == {s \in DOMAIN students : students[s].user_id = Some(user_id)}
                gone   == IF linked = {} THEN {} ELSE {Min(linked)}
            IN  /\ UNCHANGED bookings
                /\ students' = Delete(students, gone)
                /\ users' = Delete(users, {user_id})
                /\ resp' = Ok("delete_user", "deleted", None)
    /\ UNCHANGED <<computers, now, procs>>
    /\ UNCHANGED notifier

delete_user_admin(a, user_id) ==
    /\ get_admin_user(a)
    /\ IF user_id \notin DOMAIN users
       THEN /\ resp' = Reply("delete_user", 404, "User not found")
            /\ UNCHANGED <<users, students, bookings>>
       ELSE LET linked == {s \in DOMAIN students : students[s].user_id = Some(user_id)}
                gone   == IF linked = {} THEN {} ELSE {Min(linked)}
            IN  /\ bookings' = Delete(bookings,
                                      {b \in DOMAIN bookings : bookings[b].student_id \in gone})
                /\ students' = Delete(students, gone)
                /\ users' = Delete(users, {user_id})
                /\ resp' = Ok("delete_user", "deleted", None)
    /\ UNCHANGED <<computers, now, procs>>
    /\ UNCHANGED notifier

delete_student_admin(a, student_id) ==
    /\ get_admin_user(a)
    /\ IF student_id \notin DOMAIN students
       THEN /\ resp' = Reply("delete_student", 404, "Student not found")
            /\ UNCHANGED <<users, students, bookings>>
       ELSE LET student == students[student_id] IN
            /\ bookings' = Delete(bookings, BookingsOfStudent(student_id))
            /\ users' = IF student.user_id # None
                        THEN Delete(users, {Val(student.user_id)}) ELSE users
            /\ students' = Delete(students, {student_id})
            /\ resp' = Ok("delete_student", "deleted", None)
    /\ UNCHANGED <<computers, now, procs>>
    /\ UNCHANGED notifier

-----------------------------------------------------------------------------
(* Bookings *)

\* Requests the server works on at once
MaxInFlight == 2


Live(b) == bookings[b].status \in {"scheduled", "active"}

\* A conflict query that overlooks bookings already marked active
ComputerConflictsScheduledOnly(computer_id, start, end) ==
    {b \in DOMAIN bookings :
        /\ bookings[b].computer_id = computer_id
        /\ bookings[b].status = "scheduled"
        /\ bookings[b].start_time < DbValue(end)
        /\ bookings[b].end_time > DbValue(start)}

\* A conflict query over closed intervals
ComputerConflictsClosed(computer_id, start, end) ==
    {b \in DOMAIN bookings :
        /\ bookings[b].computer_id = computer_id
        /\ Live(b)
        /\ bookings[b].start_time <= DbValue(end)
        /\ bookings[b].end_time >= DbValue(start)}

\* A conflict query over the bookings of every computer
AnyComputerConflicts(computer_id, start, end) ==
    {b \in DOMAIN bookings :
        /\ Live(b)
        /\ bookings[b].start_time < DbValue(end)
        /\ bookings[b].end_time > DbValue(start)}

\* Booking.start_time < end AND Booking.end_time > start, on one computer
ComputerConflicts(computer_id, start, end) ==
    {b \in DOMAIN bookings :
        /\ bookings[b].computer_id = computer_id
        /\ Live(b)
        /\ bookings[b].start_time < DbValue(end)
        /\ bookings[b].end_time > DbValue(start)}

\* Booking.start_time <= end AND Booking.end_time >= start, of one student
StudentDayBookings(student_id, start, end) ==
    {b \in DOMAIN bookings :
        /\ bookings[b].student_id = student_id
        /\ bookings[b].start_time <= DbValue(end)
        /\ bookings[b].end_time >= DbValue(start)
        /\ Live(b)}

NewBooking(computer_id, student_id, start, end) ==
    [computer_id |-> computer_id, student_id |-> student_id,
     start_time |-> DbValue(start), end_time |-> DbValue(end),
     status |-> "scheduled"]

(* The time strings of a request: "local" is YYYY-MM-DDTHH:MM (16 characters,
   no zone), "isoZ" is an ISO instant ending in Z, "bad" parses as nothing. *)
LocalStr(h) == [fmt |-> "local", wall |-> h]

IsoZStr(h) == [fmt |-> "isoZ", wall |-> h]

BadStr == [fmt |-> "bad", wall |-> 0]

\* datetime.fromisoformat(s.replace('Z', '+00:00'))
FromIso(s) == IF s.fmt = "isoZ" THEN [wall |-> s.wall, tz |-> "UTC"] ELSE Naive(s.wall)

\* The try block of create_booking_student: the format of start_time picks
\* the parser of both strings; ok is FALSE when a ValueError is raised
ParseTimes(start, end) ==
    IF start.fmt = "local"
    THEN [ok |-> end.fmt = "local", start |-> Naive(start.wall), end |-> Naive(end.wall)]
    ELSE [ok |-> start.fmt # "bad" /\ end.fmt # "bad",
          start |-> FromIso(start), end |-> FromIso(end)]

create_booking_student(u, computer_id, start_str, end_str) ==
    /\ get_student_user(u)
    /\ LET mine == {s \in DOMAIN students : students[s].user_id = Some(u)}
           row  == NewStudent(users[u].username, users[u].email, StuId(u), Some(u), None)
       IN  IF mine = {} /\ StudentUniqueViolation(row.email, row.student_id)
           THEN \* the IntegrityError of the first db.commit() is not caught
                /\ resp' = Reply("book", 500, "IntegrityError")
                /\ UNCHANGED <<students, bookings>>
           ELSE LET committed  == IF mine = {} THEN Insert(students, row) ELSE students
                    student_id == IF mine = {} THEN NextId(students) ELSE Min(mine)
                    parsed     == ParseTimes(start_str, end_str)
                    start_utc  == convert_to_utc(parsed.start)
                    end_utc    == convert_to_utc(parsed.end)
                IN  /\ students' = committed
                    /\ IF ~parsed.ok
                       THEN /\ resp' = Reply("book", 400, "Invalid datetime format")
                            /\ UNCHANGED bookings
                       ELSE IF ComputerConflicts(computer_id, start_utc, end_utc) # {}
                       THEN /\ resp' = Reply("book", 400,
                                  "Computer is not available for the requested time slot")
                            /\ UNCHANGED bookings
                       ELSE /\ bookings' = Insert(bookings,
                                  NewBooking(computer_id, student_id, start_utc, end_utc))
                            /\ resp' = Ok("book", "scheduled", Some(NextId(bookings)))
    /\ UNCHANGED <<users, computers, now, procs>>
    /\ UNCHANGED notifier

\* The two refusals of the add branch of toggle_day_booking
ComputerRequiredReply == Reply("toggle", 400, "computer_id required to add booking")

DayConflictReply == Reply("toggle", 400, "Computer not available for selected day")

(* payload.date is an ISO date (Some(d): day d) or does not parse (None);
   payload.computer_id is optional, and 0 counts as absent. *)
toggle_day_booking(a, student_id, date, computer_id) ==
    /\ get_admin_user(a)
    /\ IF date = None
       THEN /\ resp' = Reply("toggle", 400, "Invalid date format")
            /\ UNCHANGED bookings
       ELSE LET range    == day_range_in_tz(LocalDate(Val(date)))
                existing == StudentDayBookings(student_id, range.start, range.end)
            IN  IF existing # {}
                THEN /\ bookings' = Delete(bookings, {Min(existing)})
                     /\ resp' = Ok("toggle", "removed", None)
                ELSE IF computer_id = None \/ Val(computer_id) = 0
                THEN /\ resp' = ComputerRequiredReply
                     /\ UNCHANGED bookings
                ELSE IF ComputerConflicts(Val(computer_id), range.start, range.end) # {}
                THEN /\ resp' = DayConflictReply
                     /\ UNCHANGED bookings
                ELSE /\ bookings' = Insert(bookings,
                           NewBooking(Val(computer_id), student_id, range.start, range.end))
                     /\ resp' = Ok("toggle", "added", Some(NextId(bookings)))
    /\ UNCHANGED <<users, students, computers, now, procs>>
    /\ UNCHANGED notifier

-----------------------------------------------------------------------------
(* Weekly schedule *)

\* The characters of the model in the order of SQLite's BINARY collation
Alphabet == <<" ", "0", "1", "2", "@", "A", "B", "C", "P", "S", "T", "U", "W",
              "a", "b", "c", "p", "s", "t", "u", "w">>

CharRank(c) == CHOOSE i \in 1..Len(Alphabet) : Alphabet[i] = c

RECURSIVE StrLess(_, _)
StrLess(s, t) ==
    IF t = <<>> THEN FALSE
    ELSE IF s = <<>> THEN TRUE
    ELSE IF Head(s) # Head(t) THEN CharRank(Head(s)) < CharRank(Head(t))
    ELSE StrLess(Tail(s), Tail(t))

\* order_by(Student.name.asc()); rows of one name come in rowid order
RECURSIVE StudentsByName(_)
StudentsByName(S) ==
    IF S = {} THEN <<>>
    ELSE LET first == CHOOSE x \in S : \A y \in S \ {x} :
                          \/ StrLess(students[x].name, students[y].name)
                          \/ students[x].name = students[y].name /\ x < y
         IN  <<first>> \o StudentsByName(S \ {first})

\* date.weekday(): day 0 of the model is a Monday
Weekday(d) == d % 7

get_monday(date_in_tz) ==
    [date_in_tz EXCEPT !.wall = (DateOf(date_in_tz) - Weekday(DateOf(date_in_tz))) * 24]

\* monday + timedelta(days=i)
PlusDays(dt, i) == [dt EXCEPT !.wall = dt.wall + 24 * i]

\* order_by(Booking.start_time.asc()).first(); equal starts in rowid order
EarliestBooking(S) ==
    CHOOSE b \in S : \A x \in S \ {b} :
        \/ bookings[b].start_time < bookings[x].start_time
        \/ bookings[b].start_time = bookings[x].start_time /\ b < x

\* One cell of a row: the day d of one student
WeekCell(student_id, d) ==
    LET range == day_range_in_tz(d)
        found == StudentDayBookings(student_id, range.start, range.end)
    IN  IF found # {}
        THEN [date |-> DateOf(d), has_booking |-> TRUE,
              booking_id |-> Some(EarliestBooking(found)),
              computer_id |-> Some(bookings[EarliestBooking(found)].computer_id)]
        ELSE [date |-> DateOf(d), has_booking |-> FALSE,
              booking_id |-> None, computer_id |-> None]

WeekRows ==
    LET monday == get_monday(get_current_time)
        order  == StudentsByName(DOMAIN students)
    IN  [r \in 1..Len(order) |->
            [student_id |-> order[r], student_name |-> students[order[r]].name,
             days |-> [i \in 1..5 |-> WeekCell(order[r], PlusDays(monday, i - 1))]]]

get_week_schedule(a) ==
    /\ get_admin_user(a)
    /\ resp' = Ok("week", "schedule", WeekRows)
    /\ UNCHANGED <<users, students, computers, bookings, now, procs>>
    /\ UNCHANGED notifier

-----------------------------------------------------------------------------
(* The booking handlers statement by statement.  FastAPI runs a def handler
   on a worker thread with a session of its own; pysqlite opens no
   transaction for a SELECT, so each query and each commit is a step of its
   own and other requests run in between.  procs holds the requests in
   flight: where each one is and the locals it carries. *)

FreeWorker == Min({w \in 1..MaxInFlight : w \notin DOMAIN procs})

Spawn(frame) == [w \in DOMAIN procs \cup {FreeWorker} |->
                    IF w \in DOMAIN procs THEN procs[w] ELSE frame]

Done(w) == [x \in DOMAIN procs \ {w} |-> procs[x]]

Frame(op, pc, computer_id, student_id, start, end, booking) ==
    [op |-> op, pc |-> pc, computer_id |-> computer_id, student_id |-> student_id,
     start |-> start, end |-> end, booking |-> booking]

At(w, op, pc) == w \in DOMAIN procs /\ procs[w].op = op /\ procs[w].pc = pc

\* create_booking_student up to the conflict query: the student row of the
\* caller, created and committed if missing, and the two timestamps
book_begin(u, computer_id, start_str, end_str) ==
    /\ Cardinality(DOMAIN procs) < MaxInFlight
    /\ get_student_user(u)
    /\ LET mine == {s \in DOMAIN students : students[s].user_id = Some(u)}
           row  == NewStudent(users[u].username, users[u].email, StuId(u), Some(u), None)
       IN  IF mine = {} /\ StudentUniqueViolation(row.email, row.student_id)
           THEN /\ resp' = Reply("book", 500, "IntegrityError")
                /\ UNCHANGED <<students, procs>>
           ELSE LET student_id == IF mine = {} THEN NextId(students) ELSE Min(mine)
                    parsed     == ParseTimes(start_str, end_str)
                IN  /\ students' = IF mine = {} THEN Insert(students, row) ELSE students
                    /\ IF ~parsed.ok
                       THEN /\ resp' = Reply("book", 400, "Invalid datetime format")
                            /\ UNCHANGED procs
                       ELSE /\ procs' = Spawn(Frame("book", "check", computer_id, student_id,
                                                    convert_to_utc(parsed.start),
                                                    convert_to_utc(parsed.end), 0))
                            /\ UNCHANGED resp
    /\ UNCHANGED <<users, computers, bookings, now>>
    /\ UNCHANGED notifier

\* the conflict query of create_booking_student and the test of its count
book_check(w) ==
    /\ At(w, "book", "check")
    /\ IF ComputerConflicts(procs[w].computer_id, procs[w].start, procs[w].end) # {}
       THEN /\ resp' = Reply("book", 400,
                             "Computer is not available for the requested time slot")
            /\ procs' = Done(w)
       ELSE /\ procs' = [procs EXCEPT ![w].pc = "insert"]
            /\ UNCHANGED resp
    /\ UNCHANGED <<users, students, computers, bookings, now>>
    /\ UNCHANGED notifier

\* db.add(db_booking); db.commit() of create_booking_student
book_insert(w) ==
    /\ At(w, "book", "insert")
    /\ bookings' = Insert(bookings, NewBooking(procs[w].computer_id, procs[w].student_id,
                                               procs[w].start, procs[w].end))
    /\ resp' = Ok("book", "scheduled", Some(NextId(bookings)))
    /\ procs' = Done(w)
    /\ UNCHANGED <<users, students, computers, now>>
    /\ UNCHANGED notifier

\* toggle_day_booking up to its first write or its conflict query
toggle_begin(a, student_id, date, computer_id) ==
    /\ Cardinality(DOMAIN procs) < MaxInFlight
    /\ get_admin_user(a)
    /\ IF date = None
       THEN /\ resp' = Reply("toggle", 400, "Invalid date format")
            /\ UNCHANGED procs
       ELSE LET range    == day_range_in_tz(LocalDate(Val(date)))
                existing == StudentDayBookings(student_id, range.start, range.end)
            IN  IF existing # {}
                THEN /\ procs' = Spawn(Frame("toggle", "delete", 0, student_id,
                                             range.start, range.end, Min(existing)))
                     /\ UNCHANGED resp
                ELSE IF computer_id = None \/ Val(computer_id) = 0
                THEN /\ resp' = Reply("toggle", 400, "computer_id required to add booking")
                     /\ UNCHANGED procs
                ELSE /\ procs' = Spawn(Frame("toggle", "check", Val(computer_id), student_id,
                                             range.start, range.end, 0))
                     /\ UNCHANGED resp
    /\ UNCHANGED <<users, students, computers, bookings, now>>
    /\ UNCHANGED notifier

\* db.delete(existing); db.commit(): a DELETE that matches no row any more
\* is a warning of the ORM, not an error
toggle_delete(w) ==
    /\ At(w, "toggle", "delete")
    /\ bookings' = Delete(bookings, {procs[w].booking})
    /\ resp' = Ok("toggle", "removed", None)
    /\ procs' = Done(w)
    /\ UNCHANGED <<users, students, computers, now>>
    /\ UNCHANGED notifier

\* the conflict query of toggle_day_booking and the test of its count
toggle_check(w) ==
    /\ At(w, "toggle", "check")
    /\ IF ComputerConflicts(procs[w].computer_id, procs[w].start, procs[w].end) # {}
       THEN /\ resp' = Reply("toggle", 400, "Computer not available for selected day")
            /\ procs' = Done(w)
       ELSE /\ procs' = [procs EXCEPT ![w].pc = "insert"]
            /\ UNCHANGED resp
    /\ UNCHANGED <<users, students, computers, bookings, now>>
    /\ UNCHANGED notifier

\* db.add(db_booking); db.commit() of toggle_day_booking
toggle_insert(w) ==
    /\ At(w, "toggle", "insert")
    /\ bookings' = Insert(bookings, NewBooking(procs[w].computer_id, procs[w].student_id,
                                               procs[w].start, procs[w].end))
    /\ resp' = Ok("toggle", "added", Some(NextId(bookings)))
    /\ procs' = Done(w)
    /\ UNCHANGED <<users, students, computers, now>>
    /\ UNCHANGED notifier

(* admin_assign in two steps.  The session loads the computer and the
   student and the handler checks what it loaded; the rows are written from
   those objects at db.commit(), after whatever other requests committed in
   between. *)
AssignFrame(computer_id, student_id, student) ==
    [op |-> "assign", pc |-> "commit", computer_id |-> computer_id,
     student_id |-> student_id, student |-> student]

\* the two queries and the checks of admin_assign
assign_begin(a, computer_id, student_id) ==
    /\ Cardinality(DOMAIN procs) < MaxInFlight
    /\ get_admin_user(a)
    /\ IF AssignCheck(computer_id, student_id) # NoReply
       THEN /\ resp' = AssignCheck(computer_id, student_id)
            /\ UNCHANGED procs
       ELSE /\ procs' = Spawn(AssignFrame(computer_id, student_id, students[student_id]))
            /\ UNCHANGED resp
    /\ UNCHANGED <<users, students, computers, bookings, now>>
    /\ UNCHANGED notifier

\* the decrement on the loaded student, the assignments to the computer and
\* db.commit(): the UPDATEs carry the columns the handler changed
assign_commit(w) ==
    /\ At(w, "assign", "commit")
    /\ LET today   == get_current_time
           loaded  == procs[w].student
           student == DecrementUsage(loaded, today)
           sid     == procs[w].student_id
           cid     == procs[w].computer_id
       IN  IF sid \notin DOMAIN students \/ cid \notin DOMAIN computers
           THEN \* an UPDATE that matches no row: StaleDataError, not caught
                /\ resp' = Reply("assign", 500, "StaleDataError")
                /\ UNCHANGED <<students, computers>>
           ELSE /\ students' =
                      IF student = loaded THEN students
                      ELSE [students EXCEPT ![sid] =
                              [@ EXCEPT
                                 !.usage_days_remaining = student.usage_days_remaining,
                                 !.usage_last_decrement_at = student.usage_last_decrement_at,
                                 !.active = IF student.active = loaded.active
                                            THEN @ ELSE student.active]]
                /\ computers' = [computers EXCEPT ![cid] =
                                   [@ EXCEPT !.status = "in_use",
                                             !.current_user = Some(student.name),
                                             !.last_updated = DbValue(today)]]
                /\ resp' = Ok("assign", "assigned", students'[sid].usage_days_remaining)
    /\ procs' = Done(w)
    /\ UNCHANGED <<users, bookings, now>>
    /\ UNCHANGED notifier

(* create_student_admin in two steps: the duplicate query, and the insert
   with its commit inside the try block. *)
StudentFrame(email_in, student_id_in, row) ==
    [op |-> "create_student", pc |-> "insert", email_in |-> email_in,
     student_id_in |-> student_id_in, row |-> row]

\* the normalisation and the duplicate query of create_student_admin
student_begin(a, name, email_in, student_id_in, usage_days) ==
    /\ Cardinality(DOMAIN procs) < MaxInFlight
    /\ get_admin_user(a)
    /\ LET sid   == Lower(Strip(student_id_in))
           email == Lower(Strip(email_in))
           dups  == {s \in DOMAIN students :
                        \/ Lower(Strip(students[s].student_id)) = sid
                        \/ Lower(Strip(students[s].email)) = email}
       IN  IF dups # {}
           THEN LET dup == students[Min(dups)]
                    detail == IF dup.student_id = sid /\ dup.email = email
                                  THEN "Student ID and email already exist"
                              ELSE IF dup.student_id = sid
                                  THEN "Student ID already exists"
                              ELSE IF dup.email = email
                                  THEN "Email already exists"
                              ELSE "Duplicate student"
                IN  /\ resp' = Reply("create_student", 409, detail)
                    /\ UNCHANGED procs
           ELSE /\ procs' = Spawn(StudentFrame(email_in, student_id_in,
                                NewStudent(name, email, sid, None,
                                           UsageDaysOrNone(usage_days))))
                /\ UNCHANGED resp
    /\ UNCHANGED <<users, students, computers, bookings, now>>
    /\ UNCHANGED notifier

\* db.add(db_student); db.commit() and the except IntegrityError around them
student_insert(w) ==
    /\ At(w, "create_student", "insert")
    /\ IF StudentUniqueViolation(procs[w].row.email, procs[w].row.student_id)
       THEN /\ resp' = Reply("create_student", 409, "Student ID or email already exists")
            /\ UNCHANGED students
       ELSE /\ students' = Insert(students, procs[w].row)
            /\ resp' = Ok("create_student", "", Some(NextId(students)))
    /\ procs' = Done(w)
    /\ UNCHANGED <<users, computers, bookings, now>>
    /\ UNCHANGED notifier

-----------------------------------------------------------------------------
(* Status notifier.  manager is the one ConnectionManager of the process;
   its active_connections is a plain list that the websocket handlers (on
   the server's event loop) append to and remove from, and that broadcast
   iterates in the thread update_computer_status_admin starts. *)

\* list.remove(x): the list without its first x
RECURSIVE Remove(_, _)
Remove(list, x) ==
    IF list = <<>> THEN <<>>
    ELSE IF Head(list) = x THEN Tail(list)
    ELSE <<Head(list)>> \o Remove(Tail(list), x)

Listeners == {active_connections[n] : n \in DOMAIN active_connections}

\* manager.connect, called first thing by websocket_endpoint: accept the
\* websocket and append it
connect(websocket) ==
    /\ websocket \notin DOMAIN sockets
    /\ sockets' = [k \in DOMAIN sockets \cup {websocket} |->
                     IF k = websocket THEN [state |-> "open", received |-> {}]
                     ELSE sockets[k]]
    /\ active_connections' = Append(active_connections, websocket)
    /\ UNCHANGED <<users, students, computers, bookings, now, resp, procs>>

\* The client goes away: receive_text of the handler will raise
\* WebSocketDisconnect, and a send_text to the websocket raises
client_closes(websocket) ==
    /\ websocket \in DOMAIN sockets
    /\ sockets[websocket].state = "open"
    /\ sockets' = [sockets EXCEPT ![websocket].state = "closed"]
    /\ UNCHANGED <<users, students, computers, bookings, now, resp, procs,
                   active_connections>>

\* manager.disconnect: list.remove, which raises ValueError for a value the
\* list does not hold
disconnect(websocket) ==
    IF websocket \in Listeners
    THEN /\ active_connections' = Remove(active_connections, websocket)
         /\ resp' = Ok("disconnect", "removed", None)
    ELSE /\ resp' = Reply("disconnect", 500, "ValueError")
         /\ UNCHANGED active_connections

\* The except branch of websocket_endpoint
websocket_endpoint_disconnect(websocket) ==
    /\ websocket \in DOMAIN sockets
    /\ sockets[websocket].state = "closed"
    /\ disconnect(websocket)
    /\ sockets' = [sockets EXCEPT ![websocket].state = "done"]
    /\ UNCHANGED <<users, students, computers, bookings, now, procs>>

\* manager.disconnect called for any websocket, registered or not
unregister(websocket) ==
    /\ disconnect(websocket)
    /\ UNCHANGED <<users, students, computers, bookings, now, procs, sockets>>

\* The JSON text of a broadcast without its constant type and its timestamp
Message(computer_id, status, current_user) ==
    [computer_id |-> computer_id, status |-> status, current_user |-> current_user]

\* The thread of broadcast_message: i is the position of the list iterator,
\* at_start the list as it was when the loop began, tried the websockets
\* send_text has been called on so far
BroadcastFrame(message) ==
    [op |-> "broadcast", pc |-> "start", message |-> message, i |-> 0,
     at_start |-> <<>>, tried |-> <<>>]

(* update_computer_status_admin: the commit, then the start of the broadcast
   thread, then the reply.  With no listener registered the loop of the
   thread has nothing to iterate and the thread is left out. *)
update_computer_status_admin(a, computer_id, status, current_user) ==
    /\ get_admin_user(a)
    /\ IF computer_id \notin DOMAIN computers
       THEN /\ resp' = Reply("status", 404, "Computer not found")
            /\ UNCHANGED <<computers, bookings, procs>>
       ELSE LET running == {b \in DOMAIN bookings :
                               /\ bookings[b].computer_id = computer_id
                               /\ bookings[b].status = "scheduled"
                               /\ bookings[b].start_time <= DbValue(utcnow)
                               /\ bookings[b].end_time >= DbValue(utcnow)}
            IN  /\ computers' = [computers EXCEPT ![computer_id] =
                                   [@ EXCEPT !.status = status,
                                             !.current_user = current_user,
                                             !.last_updated = DbValue(get_current_time)]]
                /\ bookings' = IF status = "in_use" /\ running # {}
                               THEN [bookings EXCEPT ![Min(running)].status = "active"]
                               ELSE bookings
                /\ procs' = IF active_connections = <<>> THEN procs
                            ELSE Spawn(BroadcastFrame(
                                     Message(computer_id, status, current_user)))
                /\ resp' = Ok("status", "Computer status updated successfully", None)
    /\ UNCHANGED <<users, students, now>>
    /\ UNCHANGED notifier

\* broadcast reaches its for statement: the iterator over the list is made
broadcast_begin(w) ==
    /\ At(w, "broadcast", "start")
    /\ procs' = [procs EXCEPT ![w].pc = "send", ![w].at_start = active_connections]
    /\ UNCHANGED <<users, students, computers, bookings, now, resp>>
    /\ UNCHANGED notifier

\* broadcast without the try around send_text: what send_text raises ends
\* the loop
broadcast_send_stop_on_failure(w) ==
    /\ At(w, "broadcast", "send")
    /\ IF procs[w].i < Len(active_connections)
       THEN LET connection == active_connections[procs[w].i + 1]
            IN  \E delivered \in IF sockets[connection].state = "open"
                                 THEN BOOLEAN ELSE {FALSE} :
                   /\ sockets' = IF delivered
                                 THEN [sockets EXCEPT ![connection].received =
                                          @ \cup {procs[w].message}]
                                 ELSE sockets
                   /\ procs' = IF delivered
                               THEN [procs EXCEPT ![w].i = @ + 1,
                                                  ![w].tried = Append(@, connection)]
                               ELSE Done(w)
       ELSE /\ procs' = Done(w)
            /\ UNCHANGED sockets
    /\ UNCHANGED <<users, students, computers, bookings, now, resp,
                   active_connections>>

\* One turn of the loop of broadcast: the iterator yields the element at its
\* position in the list as the list is now, or ends the loop when the
\* position is past the end; send_text to a closed websocket raises, and to
\* an open one it delivers or raises (it runs on another event loop than the
\* one the websocket lives on); the except swallows what is raised
broadcast_send(w) ==
    /\ At(w, "broadcast", "send")
    /\ IF procs[w].i < Len(active_connections)
       THEN LET connection == active_connections[procs[w].i + 1]
            IN  /\ \E delivered \in IF sockets[connection].state = "open"
                                    THEN BOOLEAN ELSE {FALSE} :
                      sockets' = IF delivered
                                 THEN [sockets EXCEPT ![connection].received =
                                          @ \cup {procs[w].message}]
                                 ELSE sockets
                /\ procs' = [procs EXCEPT ![w].i = @ + 1,
                                          ![w].tried = Append(@, connection)]
       ELSE /\ procs' = Done(w)
            /\ UNCHANGED sockets
    /\ UNCHANGED <<users, students, computers, bookings, now, resp,
                   active_connections>>

-----------------------------------------------------------------------------
(* The clock *)

\* Hours UTC at which requests arrive: 10:00 and 22:00 local of days 0 and 1
ClockPoints == {7, 19, 31, 43}

Tick ==
    /\ \E t \in ClockPoints :
          /\ t > now
          /\ \A x \in ClockPoints : ~(now < x /\ x < t)
          /\ now' = t
    /\ resp' = NoReply
    /\ UNCHANGED <<users, students, computers, bookings, procs>>
    /\ UNCHANGED notifier

Init ==
    /\ users = <<>>
    /\ students = <<>>
    /\ computers = <<>>
    /\ bookings = <<>>
    /\ now = Min(ClockPoints)
    /\ resp = NoReply
    /\ procs = <<>>
    /\ active_connections = <<>>
    /\ sockets = <<>>

-----------------------------------------------------------------------------
(* Requests enumerated by the specifications below.  Ids are drawn from
   ranges one larger than the tables can grow, so that every handler is also
   called with an id that names no row. *)

MaxDays == 2

MaxBookings == 2

MaxStudents == 2

MaxUsers == 3

MaxComputers == 2

MaxSockets == 2

Alice == <<<<"a">>, <<"a", "@">>>>

Bob == <<<<"b">>, <<"b", "@">>>>

Lab1 == <<"P", "1">>

Lab2 == <<"P", "2">>

\* name, email and student_id as an admin types them
Carol == <<<<"c">>, <<"C", "@", " ">>, <<"C", "1">>>>

WithinDays == \A s \in DOMAIN students' :
                  students'[s].usage_days_total = None
                      \/ Val(students'[s].usage_days_total) <= MaxDays

\* SQLite hands out max(rowid) + 1, so ids climb as rows come and go
WithinBookings == /\ Cardinality(DOMAIN bookings') <= MaxBookings
                  /\ \A b \in DOMAIN bookings' : b <= MaxBookings + 1

WithinUsers == \A u \in DOMAIN users' : u <= MaxUsers

WithinComputers == \A c \in DOMAIN computers' : c <= MaxComputers

WithinStudents == \A s \in DOMAIN students' : s <= MaxStudents

-----------------------------------------------------------------------------
(* Usage days of one student over two days: one admin, two computers, one
   student created by the admin *)

NextQuota ==
    \/ register_user(Alice[1], Alice[2])
    \/ \E n \in {Lab1, Lab2} : create_computer_admin(1, n)
    \/ \E d \in {None, Some(-1), Some(0), Some(1), Some(2)} :
          create_student_admin(1, Carol[1], Carol[2], Carol[3], d)
    \/ \E c \in 1..3, s \in 1..2 : admin_assign(1, c, s)
    \/ \E c \in 1..3 : admin_unassign(1, c)
    \/ \E s \in 1..2, d \in {-2, -1, 0, 1} : update_student_usage(1, s, d) /\ WithinDays
    \/ \E s \in 1..2 : toggle_student_active(1, s)
    \/ Tick

SpecQuota == Init /\ [][NextQuota]_vars

-----------------------------------------------------------------------------
(* The preconditions of direct assignment at one instant: two admins, one
   computer, a student created by an admin and the students created for the
   users who book *)

NextAssign ==
    \/ \E r \in {Alice, Bob} : register_user(r[1], r[2])
    \/ \E a \in 1..2 : create_computer_admin(a, Lab1)
    \/ \E a \in 1..2, d \in {None, Some(1)} :
          create_student_admin(a, Carol[1], Carol[2], Carol[3], d)
    \/ \E u \in 1..2, t \in {<<BadStr, BadStr>>, <<LocalStr(10), LocalStr(11)>>} :
          create_booking_student(u, 1, t[1], t[2]) /\ WithinBookings
    \/ \E a \in 1..2, c \in 1..2, s \in 1..4 : admin_assign(a, c, s)
    \/ \E a \in 1..2, c \in 1..2 : admin_unassign(a, c)
    \/ \E a \in 1..2, s \in 1..4 : toggle_student_active(a, s)

SpecAssign == Init /\ [][NextAssign]_vars

-----------------------------------------------------------------------------
(* The booking calendar at 10:00 local of day 0: one user, who books for
   herself and administers; two computer ids, of which one names a row *)

\* start_time and end_time as the booking form or an API client sends them:
\* [10,11), [11,12), [10,12) with an ISO start, an empty and an inverted
\* range, a mix the parser refuses, and garbage
BookingTimes ==
    {<<LocalStr(10), LocalStr(11)>>, <<LocalStr(11), LocalStr(12)>>,
     <<IsoZStr(7), LocalStr(12)>>, <<LocalStr(11), LocalStr(11)>>,
     <<LocalStr(12), LocalStr(10)>>, <<LocalStr(10), IsoZStr(8)>>,
     <<BadStr, BadStr>>}

\* A walk-in student an admin enters under the email of the user
Walter == <<<<"w">>, <<"a", "@">>, <<"w", "1">>>>

NextBooking ==
    \/ register_user(Alice[1], Alice[2])
    \/ create_computer_admin(1, Lab1)
    \/ create_student_admin(1, Walter[1], Walter[2], Walter[3], None) /\ WithinStudents
    \/ \E c \in 1..2, t \in BookingTimes :
          create_booking_student(1, c, t[1], t[2]) /\ WithinBookings /\ WithinStudents
    \/ \E s \in 1..2, d \in {None, Some(0)}, c \in {None, Some(0), Some(1), Some(2)} :
          toggle_day_booking(1, s, d, c) /\ WithinBookings
    \/ \E c \in 1..2, st \in {"in_use", "available"} :
          update_computer_status_admin(1, c, st, None)
    \/ \E c \in 1..2 : delete_computer_admin(1, c)
    \/ \E s \in 1..2 : delete_student_admin(1, s)
    \/ \E u \in 1..2 : delete_user_admin(1, u)

SpecBooking == Init /\ [][NextBooking]_vars

-----------------------------------------------------------------------------
(* Bookings of one computer requested at once: the user books [10,11) or
   [10,12) while, as admin, she toggles day 0 of two students *)

NextConc ==
    \/ register_user(Alice[1], Alice[2])
    \/ \E t \in {<<LocalStr(10), LocalStr(11)>>, <<IsoZStr(7), LocalStr(12)>>,
                 <<BadStr, BadStr>>} :
          book_begin(1, 1, t[1], t[2])
    \/ \E w \in 1..MaxInFlight : book_check(w)
    \/ \E w \in 1..MaxInFlight : book_insert(w) /\ WithinBookings
    \/ \E s \in 1..2, d \in {None, Some(0)}, c \in {None, Some(1)} :
          toggle_begin(1, s, d, c)
    \/ \E w \in 1..MaxInFlight : toggle_delete(w)
    \/ \E w \in 1..MaxInFlight : toggle_check(w)
    \/ \E w \in 1..MaxInFlight : toggle_insert(w) /\ WithinBookings

SpecConc == Init /\ [][NextConc]_vars

-----------------------------------------------------------------------------
(* One computer asked for at once for two students with usage days *)

NextAssignConc ==
    \/ register_user(Alice[1], Alice[2])
    \/ create_computer_admin(1, Lab1)
    \/ \E r \in {Carol, Walter}, d \in {None, Some(1), Some(2)} :
          create_student_admin(1, r[1], r[2], r[3], d)
    \/ \E c \in 1..2, s \in 1..3 : assign_begin(1, c, s)
    \/ \E w \in 1..MaxInFlight : assign_commit(w)
    \/ admin_unassign(1, 1)

SpecAssignConc == Init /\ [][NextAssignConc]_vars

-----------------------------------------------------------------------------
(* Student rows from both sides: an admin whose email has a capital enters
   students in several spellings, at most MaxInFlight at once, and books a
   computer herself *)

Bea == <<<<"B">>, <<"B", "@">>>>

\* name, email and student_id of the forms sent
StudentForms ==
    {Carol,
     <<<<"c">>, <<"c", "@">>, <<"c", "2">>>>,
     <<<<"b">>, <<"b", "@">>, <<" ", "C", "1">>>>,
     <<<<"b">>, <<"B", "@">>, <<"s", "t", "u", "0", "0", "1">>>>}

NextStudents ==
    \/ register_user(Bea[1], Bea[2])
    \/ \E f \in StudentForms : create_student_admin(1, f[1], f[2], f[3], None)
    \/ \E f \in StudentForms : student_begin(1, f[1], f[2], f[3], None)
    \/ \E w \in 1..MaxInFlight : student_insert(w)
    \/ \E t \in {<<LocalStr(10), LocalStr(11)>>, <<BadStr, BadStr>>} :
          create_booking_student(1, 1, t[1], t[2]) /\ WithinBookings

SpecStudents == Init /\ [][NextStudents]_vars

-----------------------------------------------------------------------------
(* Registrations under three usernames and three emails, two of each alike
   but for a capital, with and without a role, and the removal of users *)

Registrations ==
    [username : {<<"a">>, <<"b">>, <<"B">>}, email : {<<"a", "@">>, <<"b", "@">>, <<"B", "@">>},
     role : {None, Some("student"), Some("admin")}]

NextRegister ==
    \/ \E user \in Registrations : register_user_request(user) /\ WithinUsers
    \/ \E a \in 1..MaxUsers, u \in 1..MaxUsers : delete_user_admin(a, u)

SpecRegister == Init /\ [][NextRegister]_vars

-----------------------------------------------------------------------------
(* Two users who book two computers, a walk-in student, and the removal of
   computers, students and users, by ids that may name no row *)

NextDelete ==
    \/ \E r \in {Alice, Bob} : register_user(r[1], r[2]) /\ WithinUsers
    \/ \E n \in {Lab1, Lab2} : create_computer_admin(1, n) /\ WithinComputers
    \/ create_student_admin(1, Carol[1], Carol[2], Carol[3], None) /\ WithinStudents
    \/ \E u \in 1..2, c \in 1..2, t \in {<<LocalStr(10), LocalStr(11)>>,
                                        <<LocalStr(11), LocalStr(12)>>} :
          create_booking_student(u, c, t[1], t[2]) /\ WithinBookings /\ WithinStudents
    \/ \E a \in 1..2, c \in 1..3 : delete_computer_admin(a, c)
    \/ \E a \in 1..2, x \in 1..3 : delete_student_admin(a, x)
    \/ \E a \in 1..2, u \in 1..3 : delete_user_admin(a, u)

SpecDelete == Init /\ [][NextDelete]_vars

-----------------------------------------------------------------------------
(* The notifier: websockets that connect, lose their client and are
   unregistered by their handler, while an admin sets the one computer
   in_use and the broadcast threads run *)

NextNotify ==
    \/ register_user(Alice[1], Alice[2])
    \/ create_computer_admin(1, Lab1)
    \/ \E k \in 1..MaxSockets : connect(k)
    \/ \E k \in 1..MaxSockets : client_closes(k)
    \/ \E k \in 1..MaxSockets : websocket_endpoint_disconnect(k)
    \/ /\ Cardinality(DOMAIN procs) < MaxInFlight
       /\ update_computer_status_admin(1, 1, "in_use", None)
    \/ \E w \in 1..MaxInFlight : broadcast_begin(w)
    \/ \E w \in 1..MaxInFlight : broadcast_send(w)

SpecNotify == Init /\ [][NextNotify]_vars

\* The same, and manager.disconnect applied to any websocket
NextUnregister ==
    \/ NextNotify
    \/ \E k \in 1..MaxSockets : unregister(k)

SpecUnregister == Init /\ [][NextUnregister]_vars

(* One websocket listens while an admin assigns and unassigns the computer
   and sets its status, and the user books it.  A broadcast thread, once
   started, runs to its end: the operating system schedules it. *)
NextTrigger ==
    \/ register_user(Alice[1], Alice[2])
    \/ create_computer_admin(1, Lab1)
    \/ create_student_admin(1, Carol[1], Carol[2], Carol[3], Some(1)) /\ WithinStudents
    \/ connect(1)
    \/ admin_assign(1, 1, 1)
    \/ admin_unassign(1, 1)
    \/ create_booking_student(1, 1, LocalStr(10), LocalStr(11))
          /\ WithinBookings /\ WithinStudents
    \/ /\ Cardinality(DOMAIN procs) < MaxInFlight
       /\ update_computer_status_admin(1, 1, "in_use", None)
    \/ \E w \in 1..MaxInFlight : broadcast_begin(w)
    \/ \E w \in 1..MaxInFlight : broadcast_send(w)

SpecTrigger ==
    /\ Init
    /\ [][NextTrigger]_vars
    /\ WF_vars(\E w \in 1..MaxInFlight : broadcast_begin(w))
    /\ WF_vars(\E w \in 1..MaxInFlight : broadcast_send(w))

-----------------------------------------------------------------------------
(* Properties of the booking calendar *)

\* a.start < b.end AND a.end > b.start
Overlap(a, b) == a.start_time < b.end_time /\ a.end_time > b.start_time

\* The instant a time string of a request names, in hours UTC: a string
\* without a zone is lab time
Instant(s) == IF s.fmt = "isoZ" THEN s.wall ELSE s.wall - EAT_OFFSET

\* The request gets as far as the conflict query: the caller has a student
\* row or one can be made, and the parser takes both strings
ReachesCheck(u, t) ==
    /\ u \in DOMAIN users
    /\ \/ \E s \in DOMAIN students : students[s].user_id = Some(u)
       \/ ~StudentUniqueViolation(users[u].email, StuId(u))
    /\ ParseTimes(t[1], t[2]).ok

(* C1: with handlers run one at a time, in every reachable state no two
   bookings of one computer with status scheduled or active overlap as
   half-open intervals (a.start < b.end AND a.end > b.start). *)
C1_NoOverlapPerComputer ==
    \A a, b \in DOMAIN bookings :
        (a # b /\ Live(a) /\ Live(b)
             /\ bookings[a].computer_id = bookings[b].computer_id)
        => ~Overlap(bookings[a], bookings[b])

\* C1 witness: a computer holds two bookings, one of them active, and a
\* booking request that overlaps them has just been turned down
C1_Witness ==
    /\ resp.op = "book" /\ resp.code = 400
    /\ resp.detail = "Computer is not available for the requested time slot"
    /\ \E a, b \in DOMAIN bookings :
          /\ a # b
          /\ bookings[a].computer_id = bookings[b].computer_id
          /\ bookings[a].status = "active"
          /\ bookings[b].status = "scheduled"

(* C2: a booking request that reaches the conflict query is rejected exactly
   when a scheduled or active booking of that computer has start < end of
   the request and end > start of the request; a rejected request leaves the
   bookings as they are, an accepted one adds exactly one booking, with
   status scheduled, for the requested computer and instants. *)
C2_RejectedIffOverlap ==
    [][\A c \in 1..2, t \in BookingTimes :
          (create_booking_student(1, c, t[1], t[2]) /\ ReachesCheck(1, t)) =>
              LET clash == \E b \in DOMAIN bookings :
                              /\ bookings[b].computer_id = c
                              /\ Live(b)
                              /\ bookings[b].start_time < Instant(t[2])
                              /\ bookings[b].end_time > Instant(t[1])
              IN  /\ (resp'.code # 200) <=> clash
                  /\ clash => bookings' = bookings
                  /\ ~clash =>
                       \E id \in DOMAIN bookings' \ DOMAIN bookings :
                          /\ DOMAIN bookings' = DOMAIN bookings \cup {id}
                          /\ \A b \in DOMAIN bookings : bookings'[b] = bookings[b]
                          /\ bookings'[id].computer_id = c
                          /\ bookings'[id].start_time = Instant(t[1])
                          /\ bookings'[id].end_time = Instant(t[2])
                          /\ bookings'[id].status = "scheduled"
                          /\ resp'.value = Some(id)]_vars

\* C2 witness: the booking just accepted starts at the instant at which
\* another booking of the same computer ends
C2_Witness ==
    /\ resp.op = "book" /\ resp.code = 200
    /\ Val(resp.value) \in DOMAIN bookings
    /\ \E b \in DOMAIN bookings :
          /\ b # Val(resp.value)
          /\ Live(b)
          /\ bookings[b].computer_id = bookings[Val(resp.value)].computer_id
          /\ bookings[b].start_time < bookings[b].end_time
          /\ bookings[b].end_time = bookings[Val(resp.value)].start_time
          /\ bookings[Val(resp.value)].start_time < bookings[Val(resp.value)].end_time

(* C3 as claimed: the conflict check and the insert of a booking operation
   are one atomic step, so whenever a booking is inserted, also while other
   requests are in flight, no scheduled or active booking of the same
   computer overlaps it. *)
C3_CheckAndInsertAtomic ==
    [][\A id \in DOMAIN bookings' \ DOMAIN bookings :
          \A b \in DOMAIN bookings :
             (Live(b) /\ bookings[b].computer_id = bookings'[id].computer_id)
             => ~Overlap(bookings[b], bookings'[id])]_vars

-----------------------------------------------------------------------------
(* The Tuesday of the current week, seen on Monday at 10:00: the user books
   inside and at the edges of Tuesday's working window while, as admin, she
   toggles Tuesday for two students and reads the week *)

Tuesday == 1

\* 08:00-09:00, 10:00-11:00 and 17:00-18:00 of Tuesday
TuesdayTimes ==
    {<<LocalStr(24 * Tuesday + 8), LocalStr(24 * Tuesday + 9)>>,
     <<LocalStr(24 * Tuesday + 10), LocalStr(24 * Tuesday + 11)>>,
     <<LocalStr(24 * Tuesday + 17), LocalStr(24 * Tuesday + 18)>>}

NextToggle ==
    \/ register_user(Alice[1], Alice[2])
    \/ create_student_admin(1, Carol[1], Carol[2], Carol[3], None)
    \/ \E c \in 1..2, t \in TuesdayTimes :
          create_booking_student(1, c, t[1], t[2]) /\ WithinBookings
    \/ \E s \in 1..2, d \in {None, Some(Tuesday)}, c \in {None, Some(1), Some(2)} :
          toggle_day_booking(1, s, d, c) /\ WithinBookings
    \/ get_week_schedule(1)

SpecToggle == Init /\ [][NextToggle]_vars

-----------------------------------------------------------------------------
(* Properties of the day toggle and of the weekly schedule *)

\* 09:00 and 17:00 local of day d as canonical instants (hours UTC)
WindowStart(d) == 24 * d + WORK_START - EAT_OFFSET

WindowEnd(d) == 24 * d + WORK_END - EAT_OFFSET

\* The booking meets the local calendar day d somewhere
OnDate(b, d) == /\ bookings[b].start_time < 24 * (d + 1) - EAT_OFFSET
                /\ bookings[b].end_time > 24 * d - EAT_OFFSET

\* The booking overlaps the working window of day d as a half-open interval
InWindow(b, d) == /\ bookings[b].start_time < WindowEnd(d)
                  /\ bookings[b].end_time > WindowStart(d)

StudentFreeOn(s, d) ==
    \A b \in DOMAIN bookings : (bookings[b].student_id = s /\ Live(b)) => ~OnDate(b, d)

ComputerFreeOn(c, d) ==
    \A b \in DOMAIN bookings : (bookings[b].computer_id = c /\ Live(b)) => ~InWindow(b, d)

\* The last request added the booking of student s for day d, and the
\* student has no other booking on that date
JustAdded(s, d) ==
    /\ resp.op = "toggle" /\ resp.detail = "added"
    /\ Val(resp.value) \in DOMAIN bookings
    /\ bookings[Val(resp.value)].student_id = s
    /\ bookings[Val(resp.value)].start_time = WindowStart(d)
    /\ bookings[Val(resp.value)].end_time = WindowEnd(d)
    /\ \A b \in DOMAIN bookings \ {Val(resp.value)} :
          (bookings[b].student_id = s /\ Live(b)) => ~OnDate(b, d)

(* C11: a toggle for a student with no scheduled or active booking on the
   date and a computer free for the date's working window answers "added"
   and inserts exactly one scheduled booking from 09:00 to 17:00 local of
   that date; the same toggle called right after answers "removed" and takes
   exactly that booking away again, whatever computer it names. *)
C11_ToggleRoundTrip ==
    [][/\ \A s \in 1..2, c \in 1..2 :
            (/\ toggle_day_booking(1, s, Some(Tuesday), Some(c))
             /\ StudentFreeOn(s, Tuesday) /\ ComputerFreeOn(c, Tuesday)) =>
                /\ resp'.code = 200 /\ resp'.detail = "added"
                /\ Val(resp'.value) \notin DOMAIN bookings
                /\ DOMAIN bookings' = DOMAIN bookings \cup {Val(resp'.value)}
                /\ \A b \in DOMAIN bookings : bookings'[b] = bookings[b]
                /\ bookings'[Val(resp'.value)] =
                      [computer_id |-> c, student_id |-> s,
                       start_time |-> WindowStart(Tuesday),
                       end_time |-> WindowEnd(Tuesday), status |-> "scheduled"]
       /\ \A s \in 1..2, c \in {None, Some(1), Some(2)} :
            (toggle_day_booking(1, s, Some(Tuesday), c) /\ JustAdded(s, Tuesday)) =>
                /\ resp'.code = 200 /\ resp'.detail = "removed"
                /\ bookings' = Delete(bookings, {Val(resp.value)})]_vars

\* C11 witness: a toggle has just added Tuesday's booking of a student free
\* on that date, next to a booking that was there before
C11_Witness ==
    /\ \E s \in 1..2 : JustAdded(s, Tuesday)
    /\ Cardinality(DOMAIN bookings) > 1

(* C12 as claimed: a toggle answers "removed" exactly when the student has a
   scheduled or active booking that overlaps the working window of the date
   as a half-open interval, and it deletes no booking that does not. *)
C12_RemovesOnlyOverlapping ==
    [][\A s \in 1..2, c \in {None, Some(1), Some(2)} :
          toggle_day_booking(1, s, Some(Tuesday), c) =>
             /\ (resp'.detail = "removed") <=>
                   \E b \in DOMAIN bookings :
                      bookings[b].student_id = s /\ Live(b) /\ InWindow(b, Tuesday)
             /\ \A b \in DOMAIN bookings \ DOMAIN bookings' : InWindow(b, Tuesday)]_vars

(* C13 as claimed: for a student with no booking on the date, a toggle
   without computer fails as a validation error, a toggle for a computer
   with an overlapping scheduled or active booking fails as an error of
   another kind (status code), and neither changes the bookings. *)
C13_AddFailuresDiffer ==
    [][\A s \in 1..2, c \in {None, Some(1), Some(2)} :
          (toggle_day_booking(1, s, Some(Tuesday), c) /\ StudentFreeOn(s, Tuesday)) =>
             /\ c = None => resp' = ComputerRequiredReply /\ bookings' = bookings
             /\ (c # None /\ ~ComputerFreeOn(Val(c), Tuesday)) =>
                   /\ resp'.code \notin {200, ComputerRequiredReply.code}
                   /\ bookings' = bookings]_vars

(* C14 as claimed: the week schedule has one row per student with the five
   cells Monday to Friday of the current week, and a cell has has_booking
   exactly when the student has a scheduled or active booking that overlaps
   the working window of that day as a half-open interval. *)
C14_CellIffOverlap ==
    resp.op = "week" =>
        /\ {resp.value[r].student_id : r \in DOMAIN resp.value} = DOMAIN students
        /\ Len(resp.value) = Cardinality(DOMAIN students)
        /\ \A r \in DOMAIN resp.value :
              /\ DOMAIN resp.value[r].days = 1..5
              /\ \A i \in 1..5 :
                    /\ resp.value[r].days[i].date = i - 1
                    /\ resp.value[r].days[i].has_booking <=>
                          \E b \in DOMAIN bookings :
                             /\ bookings[b].student_id = resp.value[r].student_id
                             /\ Live(b)
                             /\ InWindow(b, i - 1)

-----------------------------------------------------------------------------
(* Properties of direct assignment *)

\* The preconditions (a)..(e) of AssignDirect, in the state before the call
PreExists(c, s) == c \in DOMAIN computers /\ s \in DOMAIN students

PreQuota(s) == students[s].usage_days_remaining = None
                   \/ Val(students[s].usage_days_remaining) > 0

PreUserActive(s) ==
    \/ students[s].user_id = None
    \/ Val(students[s].user_id) \notin DOMAIN users
    \/ users[Val(students[s].user_id)].is_active

PreStudentActive(s) == students[s].active

PreFree(c) == computers[c].status # "in_use"

\* The first precondition that fails, "none" when all hold
FirstFailing(c, s) ==
    IF ~PreExists(c, s) THEN "a"
    ELSE IF ~PreQuota(s) THEN "b"
    ELSE IF ~PreUserActive(s) THEN "c"
    ELSE IF ~PreStudentActive(s) THEN "d"
    ELSE IF ~PreFree(c) THEN "e"
    ELSE "none"

\* Every call reports the first precondition that fails, and succeeds when none does
ReportsFirstFailing(c, s) ==
    LET k == FirstFailing(c, s) IN
    /\ k = "a" => resp'.code = 404 /\ resp'.detail = "Computer or Student not found"
    /\ k = "b" => resp'.code = 400 /\ resp'.detail = "Student's usage days have expired"
    /\ k = "c" => resp'.code = 400
                    /\ resp'.detail = "Student is inactive and cannot be assigned"
    /\ k = "d" => resp'.code = 400
                    /\ resp'.detail = "Student is inactive and cannot be assigned"
    /\ k = "e" => resp'.code = 400 /\ resp'.detail = "Computer already in use"
    /\ k = "none" <=> resp'.code = 200

\* (c) and (d) counted as one precondition
Merged(k) == IF k = "d" THEN "c" ELSE k

(* C4 as claimed: AssignDirect reports the first of the preconditions (a)..(e)
   that fails, and the five failure reasons are pairwise distinct: two calls
   that get the same rejection failed the same precondition. *)
C4_DistinctReasons ==
    [][\A a \in 1..2, c \in 1..2, s \in 1..4 :
          admin_assign(a, c, s) =>
             /\ ReportsFirstFailing(c, s)
             /\ \A c2 \in 1..2, s2 \in 1..4 :
                   (resp'.code # 200 /\ AssignCheck(c2, s2) = resp')
                       => FirstFailing(c2, s2) = FirstFailing(c, s)]_vars

(* C4 amended: AssignDirect reports the first of the preconditions (a)..(e)
   that fails; the reasons of (a), (b), (e) and of (c)/(d) are pairwise
   distinct, (c) and (d) sharing one reason. *)
C4_OrderedReasons ==
    [][\A a \in 1..2, c \in 1..2, s \in 1..4 :
          admin_assign(a, c, s) =>
             /\ ReportsFirstFailing(c, s)
             /\ \A c2 \in 1..2, s2 \in 1..4 :
                   (resp'.code # 200 /\ AssignCheck(c2, s2) = resp')
                       => Merged(FirstFailing(c2, s2)) = Merged(FirstFailing(c, s))]_vars

\* C4 witness: a rejection as inactive while one student fails (c) and another (d)
C4_Witness ==
    /\ resp = InactiveReply
    /\ \E s1, s2 \in DOMAIN students :
          /\ PreQuota(s1) /\ ~PreUserActive(s1)
          /\ PreQuota(s2) /\ PreUserActive(s2) /\ ~PreStudentActive(s2)
    /\ \E c \in DOMAIN computers : ~PreFree(c)

(* C5: a rejected AssignDirect mutates nothing: computers (status, occupant,
   timestamp) and students (remaining days, last decrement, active flag) are
   as before, and so are users and bookings. *)
C5_RejectedAssignChangesNothing ==
    [][(resp'.op = "assign" /\ resp'.code # 200)
          => UNCHANGED <<computers, students, users, bookings>>]_vars

\* C5 witness: a student with days left is refused a computer that is in use
C5_Witness ==
    /\ resp = InUseReply
    /\ \E s \in DOMAIN students :
          /\ students[s].usage_days_remaining = Some(1)
          /\ students[s].usage_last_decrement_at = None
          /\ students[s].active
    /\ \E c \in DOMAIN computers : computers[c].status = "in_use"

(* C15: a successful AssignDirect leaves the computer in_use with the
   student's name as occupant, and its answer carries the student's remaining
   usage days as they are after the call, unset for a student without
   quota. *)
C15_AssignSetsOccupant ==
    [][\A c \in 1..3, s \in 1..2 :
          (admin_assign(1, c, s) /\ resp'.code = 200) =>
             /\ computers'[c].status = "in_use"
             /\ computers'[c].current_user = Some(students'[s].name)
             /\ resp'.value = students'[s].usage_days_remaining
             /\ students[s].usage_days_total = None => resp'.value = None]_vars

\* C15 witness: the assignment just answered took one of the student's two
\* days and reports the one that is left
C15_Witness ==
    /\ resp.op = "assign" /\ resp.code = 200 /\ resp.value = Some(1)
    /\ \E s \in DOMAIN students, c \in DOMAIN computers :
          /\ students[s].usage_days_total = Some(2)
          /\ students[s].usage_days_remaining = Some(1)
          /\ students[s].usage_last_decrement_at = Some(computers[c].last_updated)
          /\ computers[c].last_updated = now + EAT_OFFSET
          /\ computers[c].status = "in_use"
          /\ computers[c].current_user = Some(students[s].name)

(* C16: UnassignDirect on an existing computer, whatever its status, makes
   it available and clears its occupant; on a computer that does not exist
   it fails as not found (404) and changes no computer; in both cases no
   student, booking or user changes. *)
C16_UnassignFrame ==
    [][\A a \in 1..2, c \in 1..2 :
          admin_unassign(a, c) =>
             /\ c \in DOMAIN computers =>
                   /\ resp'.code = 200
                   /\ computers'[c].status = "available"
                   /\ computers'[c].current_user = None
                   /\ \A x \in DOMAIN computers \ {c} : computers'[x] = computers[x]
             /\ c \notin DOMAIN computers =>
                   resp'.code = 404 /\ computers' = computers
             /\ DOMAIN computers' = DOMAIN computers
             /\ UNCHANGED <<students, bookings, users>>]_vars

\* C16 witness: the computer of a student who spent the last usage day has
\* just been released, while a booking is on the calendar
C16_Witness ==
    /\ resp.op = "unassign" /\ resp.code = 200
    /\ bookings # <<>>
    /\ \E s \in DOMAIN students :
          /\ students[s].usage_days_remaining = Some(0)
          /\ students[s].usage_last_decrement_at # None
          /\ ~students[s].active
    /\ \E c \in DOMAIN computers :
          computers[c].status = "available" /\ computers[c].current_user = None

(* C17 as claimed: the busy check and the write of AssignDirect are one
   atomic step, so an assignment that succeeds, also while other requests
   are in flight, never lands on a computer that is in use. *)
C17_AssignCheckAndWriteAtomic ==
    [][\A w \in 1..MaxInFlight :
          (assign_commit(w) /\ resp'.code = 200) =>
              computers[procs[w].computer_id].status # "in_use"]_vars

-----------------------------------------------------------------------------
(* Properties of the student and user records *)

\* Some student has this email or this student_id, ignoring case
DupIgnoringCase(email, sid) ==
    \E s \in DOMAIN students :
        \/ Lower(students[s].email) = Lower(email)
        \/ Lower(students[s].student_id) = Lower(sid)

\* The step added exactly one student, with this email and student_id
AddedStudent(email, sid) ==
    /\ Val(resp'.value) \notin DOMAIN students
    /\ DOMAIN students' = DOMAIN students \cup {Val(resp'.value)}
    /\ \A s \in DOMAIN students : students'[s] = students[s]
    /\ students'[Val(resp'.value)].email = email
    /\ students'[Val(resp'.value)].student_id = sid

(* C18: admin student creation stores student_id and email trimmed and in
   lower case; a creation whose student_id or email equals an existing
   student's ignoring case answers 409 and adds no row; so does a creation
   whose insert runs into the unique constraint. *)
C18_DuplicateStudentRejected ==
    [][/\ \A f \in StudentForms :
            create_student_admin(1, f[1], f[2], f[3], None) =>
               /\ DupIgnoringCase(Strip(f[2]), Strip(f[3])) => resp'.code = 409
               /\ resp'.code = 200 => AddedStudent(Lower(Strip(f[2])), Lower(Strip(f[3])))
               /\ resp'.code # 200 => students' = students
       /\ \A w \in 1..MaxInFlight :
            student_insert(w) =>
               /\ StudentUniqueViolation(Lower(Strip(procs[w].email_in)),
                                         Lower(Strip(procs[w].student_id_in)))
                     => resp'.code = 409
               /\ resp'.code = 200 => AddedStudent(Lower(Strip(procs[w].email_in)),
                                                   Lower(Strip(procs[w].student_id_in)))
               /\ resp'.code # 200 => students' = students]_vars

\* C18 witness: a form is refused because its email and student_id are, in
\* another case, those of the student the booking of the user created
C18_Witness ==
    /\ resp.op = "create_student" /\ resp.code = 409
    /\ resp.detail = "Duplicate student"
    /\ \E s \in DOMAIN students :
          /\ students[s].user_id # None
          /\ students[s].student_id # Lower(students[s].student_id)

(* C20: a registration creates the user with role admin whatever role it
   asks for; a registration whose username or email is that of an existing
   user answers 400 and leaves the users as they are. *)
C20_RegisterForcesAdmin ==
    [][\A user \in Registrations :
          register_user_request(user) =>
             IF \E u \in DOMAIN users :
                   users[u].username = user.username \/ users[u].email = user.email
             THEN resp'.code = 400 /\ users' = users
             ELSE /\ resp'.code = 200
                  /\ Val(resp'.value) \notin DOMAIN users
                  /\ DOMAIN users' = DOMAIN users \cup {Val(resp'.value)}
                  /\ \A u \in DOMAIN users : users'[u] = users[u]
                  /\ users'[Val(resp'.value)].role = "admin"
                  /\ users'[Val(resp'.value)].username = user.username
                  /\ users'[Val(resp'.value)].email = user.email]_vars

\* C20 witness: with two admins registered, a third registration has just
\* been refused
C20_Witness ==
    /\ resp.op = "register" /\ resp.code = 400
    /\ Cardinality(DOMAIN users) = 2
    /\ \A u \in DOMAIN users : users[u].role = "admin"

(* C19 as claimed: in every reachable state no two students have emails
   equal ignoring case or student_ids equal ignoring case. *)
C19_StudentsUniqueIgnoringCase ==
    \A s, t \in DOMAIN students :
        s # t => /\ Lower(students[s].email) # Lower(students[t].email)
                 /\ Lower(students[s].student_id) # Lower(students[t].student_id)

-----------------------------------------------------------------------------
(* Properties of the deletions *)

\* The table after the step is the table before it without the rows gone
Without(after, before, gone) ==
    /\ DOMAIN after = DOMAIN before \ gone
    /\ \A i \in DOMAIN after : after[i] = before[i]

(* C21: deleting a computer removes it and exactly the bookings that name
   it; deleting a student removes it, exactly its bookings and its linked
   user; deleting a user removes it, its student and exactly that student's
   bookings; every other computer, student, user and booking stays as it
   was. *)
C21_DeletionCascades ==
    [][/\ \A a \in 1..2, c \in 1..3 :
            (delete_computer_admin(a, c) /\ resp'.code = 200) =>
               /\ Without(computers', computers, {c})
               /\ Without(bookings', bookings, BookingsOfComputer(c))
               /\ \A b \in DOMAIN bookings' : bookings'[b].computer_id # c
               /\ UNCHANGED <<students, users>>
       /\ \A a \in 1..2, x \in 1..3 :
            (delete_student_admin(a, x) /\ resp'.code = 200) =>
               /\ Without(students', students, {x})
               /\ Without(bookings', bookings, BookingsOfStudent(x))
               /\ \A b \in DOMAIN bookings' : bookings'[b].student_id # x
               /\ Without(users', users,
                          IF students[x].user_id = None THEN {}
                          ELSE {Val(students[x].user_id)})
               /\ UNCHANGED computers
       /\ \A a \in 1..2, u \in 1..3 :
            (delete_user_admin(a, u) /\ resp'.code = 200) =>
               LET theirs == {x \in DOMAIN students : students[x].user_id = Some(u)}
               IN  /\ Without(users', users, {u})
                   /\ Without(students', students, theirs)
                   /\ Without(bookings', bookings,
                              {b \in DOMAIN bookings : bookings[b].student_id \in theirs})
                   /\ UNCHANGED computers]_vars

\* C21 witness: a user has just been deleted, while another user, that
\* user's student and a booking of that student remain
C21_Witness ==
    /\ resp.op = "delete_user" /\ resp.code = 200
    /\ Cardinality(DOMAIN users) = 1
    /\ \E x \in DOMAIN students : students[x].user_id # None
                                  /\ Val(students[x].user_id) \in DOMAIN users
    /\ \A x \in DOMAIN students : students[x].user_id # None
                                  => Val(students[x].user_id) \in DOMAIN users
    /\ bookings # <<>>
    /\ \A b \in DOMAIN bookings : bookings[b].student_id \in DOMAIN students

(* C29 as claimed: in every reachable state every booking names a computer
   and a student that exist. *)
C29_BookingsReferToRows ==
    \A b \in DOMAIN bookings :
        /\ bookings[b].computer_id \in DOMAIN computers
        /\ bookings[b].student_id \in DOMAIN students

-----------------------------------------------------------------------------
(* Properties of the status notifier *)

Count(list, x) == Cardinality({n \in DOMAIN list : list[n] = x})

Range(list) == {list[n] : n \in DOMAIN list}

Broadcasting(w) == w \in DOMAIN procs /\ procs[w].op = "broadcast"

\* This step is a turn of the loop of broadcast thread w
Turn(w) ==
    /\ Broadcasting(w) /\ procs[w].pc = "send"
    /\ w \notin DOMAIN procs' \/ procs'[w] # procs[w]

\* This step is the end of the loop of broadcast thread w
Ends(w) == Broadcasting(w) /\ procs[w].pc = "send" /\ w \notin DOMAIN procs'

(* C22: a status update that starts a broadcast has committed the new status
   and replies success before any delivery is made; a turn of the loop whose
   delivery fails leaves the thread in the loop at the next position and
   leaves the computers and the reply alone; and a broadcast during which no
   listener registered at its start was unregistered has, when it ends,
   called send_text exactly once on each of them. *)
C22_BroadcastReachesAll ==
    [][\A w \in 1..MaxInFlight :
          /\ w \notin DOMAIN procs /\ w \in DOMAIN procs' /\ procs'[w].op = "broadcast"
             => /\ resp' = Ok("status", "Computer status updated successfully", None)
                /\ computers'[procs'[w].message.computer_id].status
                      = procs'[w].message.status
                /\ procs'[w].tried = <<>>
                /\ sockets' = sockets
          /\ Turn(w)
             => /\ UNCHANGED <<computers, bookings, resp>>
                /\ procs[w].i < Len(active_connections) /\ sockets' = sockets
                   => /\ w \in DOMAIN procs'
                      /\ procs'[w].pc = "send"
                      /\ procs'[w].i = procs[w].i + 1
          /\ Ends(w) /\ Range(procs[w].at_start) \subseteq Listeners
             => \A k \in Range(procs[w].at_start) : Count(procs[w].tried, k) = 1]_vars

\* C22 witness: a broadcast over two listeners is at its end; the first one
\* was tried and got nothing, the second one has the message, and the
\* computer is in_use
C22_Witness ==
    \E w \in DOMAIN procs :
       /\ Broadcasting(w) /\ procs[w].pc = "send"
       /\ Len(active_connections) = 2
       /\ procs[w].at_start = active_connections
       /\ procs[w].tried = active_connections
       /\ procs[w].message \notin sockets[active_connections[1]].received
       /\ procs[w].message \in sockets[active_connections[2]].received
       /\ computers[procs[w].message.computer_id].status = procs[w].message.status

(* C23 as claimed: manager.disconnect called for a websocket that is not in
   the list raises nothing and leaves the list as it was. *)
C23_UnregisterAbsentIsNoOp ==
    [][\A k \in 1..MaxSockets :
          unregister(k) /\ k \notin Listeners
          => resp'.code = 200 /\ active_connections' = active_connections]_vars

(* C24 as claimed: when a broadcast ends, send_text has been called exactly
   once on every listener that was registered when it began and still is. *)
C24_StayersGetTheEventOnce ==
    [][\A w \in 1..MaxInFlight :
          Ends(w) => \A k \in Range(procs[w].at_start) \cap Listeners :
                        Count(procs[w].tried, k) = 1]_vars

\* The last reply is the success of an assign, an unassign or a booking, and
\* a listener is registered
Triggered ==
    /\ resp.code = 200
    /\ resp.op \in {"assign", "unassign", "book"}
    /\ active_connections # <<>>

(* C25 as claimed: after a successful assign, unassign or booking made while
   a listener is registered, a broadcast thread eventually runs. *)
C25_ChangeIsBroadcast == Triggered ~> \E w \in 1..MaxInFlight : Broadcasting(w)

-----------------------------------------------------------------------------
(* Properties of a booking request and of the usage adjustment *)

\* The student row of user u, if there is one
StudentOf(u) == {s \in DOMAIN students : students[s].user_id = Some(u)}

\* A scheduled or active booking of student s on another computer than c
\* overlaps the request t
HoldsElsewhere(s, c, t) ==
    \E b \in DOMAIN bookings :
       /\ bookings[b].student_id = s
       /\ bookings[b].computer_id # c
       /\ Live(b)
       /\ bookings[b].start_time < Instant(t[2])
       /\ bookings[b].end_time > Instant(t[1])

(* C26: a booking request whose caller holds a scheduled or active booking
   that overlaps it on another computer is accepted exactly when no scheduled
   or active booking of the requested computer overlaps it, and the booking
   added is the caller's. *)
C26_OnlyTheRequestedComputerCounts ==
    [][\A c \in 1..2, t \in BookingTimes, s \in DOMAIN students :
          /\ create_booking_student(1, c, t[1], t[2])
          /\ ReachesCheck(1, t)
          /\ s \in StudentOf(1)
          /\ HoldsElsewhere(s, c, t)
          => LET clash == \E b \in DOMAIN bookings :
                             /\ bookings[b].computer_id = c
                             /\ Live(b)
                             /\ bookings[b].start_time < Instant(t[2])
                             /\ bookings[b].end_time > Instant(t[1])
             IN  /\ resp'.code = 200 <=> ~clash
                 /\ ~clash => /\ Val(resp'.value) \in DOMAIN bookings' \ DOMAIN bookings
                              /\ bookings'[Val(resp'.value)].student_id = s
                              /\ bookings'[Val(resp'.value)].computer_id = c]_vars

\* C26 witness: the booking just accepted overlaps a live booking of the
\* same student on another computer
C26_Witness ==
    /\ resp.op = "book" /\ resp.code = 200
    /\ Val(resp.value) \in DOMAIN bookings
    /\ \E b \in DOMAIN bookings :
          /\ b # Val(resp.value)
          /\ Live(b)
          /\ bookings[b].student_id = bookings[Val(resp.value)].student_id
          /\ bookings[b].computer_id # bookings[Val(resp.value)].computer_id
          /\ bookings[b].start_time < bookings[Val(resp.value)].end_time
          /\ bookings[b].end_time > bookings[Val(resp.value)].start_time

(* C27 as claimed: a usage adjustment changes the active flag of the student
   only from inactive to active, only with a positive day count and only
   when the remaining days end above 0; a negative day count leaves the
   flag alone, and a day count of 0 leaves the student row alone. *)
C27_ReactivatesOnlyOnIncrease ==
    [][\A s \in DOMAIN students, d \in {-2, -1, 0, 1} :
          update_student_usage(1, s, d)
          => /\ d = 0 => students' = students
             /\ d < 0 => students'[s].active = students[s].active
             /\ students'[s].active # students[s].active
                => /\ d > 0
                   /\ students'[s].active
                   /\ Val(students'[s].usage_days_remaining) > 0]_vars

(* C28 as claimed: a booking request that is refused leaves the bookings and
   the students as they were. *)
C28_RejectedBookingChangesNothing ==
    [][\A c \in 1..2, t \in BookingTimes :
          create_booking_student(1, c, t[1], t[2]) /\ resp'.code # 200
          => bookings' = bookings /\ students' = students]_vars

-----------------------------------------------------------------------------
(* Properties of the usage days *)

Remaining(s) == students[s].usage_days_remaining

LastDecrement(s) == students[s].usage_last_decrement_at

\* The local calendar day of the current request
Today == DateOf(get_current_time)

(* C6: the successful AssignDirect calls of one local calendar day take at
   most one usage day of a student.  usage_last_decrement_at changes only when
   an assignment takes a day, and is then the local wall clock of that
   assignment; an assignment that takes a day takes exactly one, and only when
   no day was taken before or the last one was taken on an earlier local day. *)
C6_OncePerLocalDay ==
    [][\A s \in DOMAIN students \cap DOMAIN students' :
          /\ (LastDecrement(s)' # LastDecrement(s)) =>
                /\ resp'.op = "assign" /\ resp'.code = 200
                /\ Remaining(s)' # Remaining(s)
                /\ LastDecrement(s)' = Some(now + EAT_OFFSET)
          /\ (resp'.op = "assign" /\ Remaining(s)' # Remaining(s)) =>
                /\ Remaining(s)' = Some(Val(Remaining(s)) - 1)
                /\ LastDecrement(s)' # LastDecrement(s)
                /\ LastDecrement(s) = None \/ Val(LastDecrement(s)) \div 24 < Today]_vars

\* C6 witness: a student holds a computer assigned later on the day a usage
\* day was taken, and that assignment took none
C6_Witness ==
    /\ resp.op = "assign" /\ resp.code = 200
    /\ \E s \in DOMAIN students, c \in DOMAIN computers :
          /\ computers[c].status = "in_use"
          /\ computers[c].current_user = Some(students[s].name)
          /\ computers[c].last_updated = now + EAT_OFFSET
          /\ LastDecrement(s) # None
          /\ Val(LastDecrement(s)) < computers[c].last_updated
          /\ Val(LastDecrement(s)) \div 24 = Today
          /\ resp.value = Remaining(s) /\ Val(Remaining(s)) > 0

(* C7 as claimed: an AssignDirect that passes its preconditions, for a student
   with usage days left whose last usage day was taken on an earlier local
   calendar day (at whatever time of that day), takes exactly one usage day. *)
C7_DecrementsOnLaterDay ==
    [][\A c \in 1..3, s \in 1..2 :
          (/\ admin_assign(1, c, s)
           /\ resp'.code = 200
           /\ Remaining(s) # None
           /\ LastDecrement(s) # None
           /\ Val(LastDecrement(s)) \div 24 < Today)
             => Remaining(s)' = Some(Val(Remaining(s)) - 1)]_vars

(* C8: an AssignDirect that takes the last usage day succeeds and sets the
   student inactive; while the remaining days are 0 every AssignDirect of the
   student to an existing computer is rejected as expired and changes nothing;
   only a usage adjustment that leaves more than 0 days ends this. *)
C8_ExpiryBlocksAssign ==
    [][/\ \A c \in 1..3, s \in 1..2 :
             (admin_assign(1, c, s) /\ PreExists(c, s)) =>
                 /\ Remaining(s) = Some(0) =>
                       /\ resp' = ExpiredReply
                       /\ UNCHANGED <<students, computers>>
                 /\ (Remaining(s) # Some(0) /\ Remaining(s)' = Some(0)) =>
                       /\ resp'.code = 200
                       /\ ~students'[s].active
                       /\ computers'[c].status = "in_use"
       /\ \A s \in DOMAIN students \cap DOMAIN students' :
             (Remaining(s) = Some(0) /\ Remaining(s)' # Some(0)) =>
                 /\ resp'.op = "usage"
                 /\ Val(Remaining(s)') > 0]_vars

\* C8 witness: the student who took the last day still holds the computer and
\* is refused another assignment as expired
C8_Witness ==
    /\ resp = ExpiredReply
    /\ \E s \in DOMAIN students, c \in DOMAIN computers :
          /\ Remaining(s) = Some(0)
          /\ ~students[s].active
          /\ LastDecrement(s) # None
          /\ computers[c].status = "in_use"
          /\ computers[c].current_user = Some(students[s].name)
          /\ computers[c].last_updated = Val(LastDecrement(s))

(* C9 as claimed: in every reachable state a student whose remaining usage
   days are set and 0 is inactive. *)
C9_ZeroMeansInactive ==
    \A s \in DOMAIN students : Remaining(s) = Some(0) => ~students[s].active

(* C10: in every reachable state, for every student whose quota is set,
   0 <= usage_days_remaining <= usage_days_total. *)
C10_RemainingWithinTotal ==
    \A s \in DOMAIN students :
        (Remaining(s) # None \/ students[s].usage_days_total # None) =>
            /\ Remaining(s) # None /\ students[s].usage_days_total # None
            /\ 0 <= Val(Remaining(s))
            /\ Val(Remaining(s)) <= Val(students[s].usage_days_total)

\* C10 witness: after an assignment took a day, a negative adjustment has
\* clamped the remaining days at 0 below a positive total
C10_Witness ==
    /\ resp.op = "usage" /\ resp.detail = "updated"
    /\ \E s \in DOMAIN students :
          /\ LastDecrement(s) # None
          /\ Remaining(s) = Some(0)
          /\ Val(students[s].usage_days_total) > 0

=============================================================================
